---- MODULE Spec2Model ----
(***************************************************************************)
(* Model of dash-windtopo's app.py: the two tables loaded at import, the   *)
(* frequency aggregation, the four Dash callbacks and the component        *)
(* properties (stores, figure, chart panel) they read and write.           *)
(*                                                                         *)
(* Encodings.  Station ids are small naturals (station codes).  A date or  *)
(* timestamp string is the sequence of its zero-padded numeric fields      *)
(* ("2025-02-13" is <<2025, 2, 13>>, "2025-02-13 05:00" is                 *)
(* <<2025, 2, 13, 5>>); Python's string comparison is the lexicographic    *)
(* order of these sequences, a proper prefix being smaller.  Python's None *)
(* is the record None; a dict is a function from its keys.  A float        *)
(* quotient is the fraction in lowest terms.                               *)
(***************************************************************************)
EXTENDS Integers, Sequences, FiniteSets

VARIABLES
    data_df,        \* observation table (app.py:25), a sequence of rows
    loc_df,         \* location table (app.py:22-23), a sequence of rows
    plot_df,        \* freq_df merged with loc_df (app.py:31-39)
    clickData,      \* station-map.clickData, the last click payload
    relayoutData,   \* station-map.relayoutData, the last relayout payload
    n_clicks,       \* reset-button.n_clicks
    case_selector,  \* case-selector.value
    selected_ids,   \* selected-station-ids.data
    map_state,      \* map-state.data
    figure,         \* station-map.figure
    children,       \* timeseries-container.children
    triggered,      \* the property whose change started the last chain
    pc              \* "import", "layout" (served, no callback yet), "ready"

vars == <<data_df, loc_df, plot_df, clickData, relayoutData, n_clicks,
          case_selector, selected_ids, map_state, figure, children,
          triggered, pc>>

\* ------------------------------------------------------------ Python values

None == [none |-> TRUE]

EmptyDict == [k \in {} |-> 0]

\* Python truthiness of an optional dict: None and {} are falsy.
Truthy(d) == d # None /\ DOMAIN d # {}

\* dict.get(key, default)
Get(d, key, default) == IF key \in DOMAIN d THEN d[key] ELSE default

Range(s) == {s[i] : i \in DOMAIN s}

Min2(a, b) == IF a <= b THEN a ELSE b

RECURSIVE LexLess(_, _)
\* str < str on the field sequences
LexLess(a, b) ==
    IF b = <<>> THEN FALSE
    ELSE IF a = <<>> THEN TRUE
    ELSE IF Head(a) # Head(b) THEN Head(a) < Head(b)
    ELSE LexLess(Tail(a), Tail(b))

\* str <= str
LexLeq(a, b) == a = b \/ LexLess(a, b)

RECURSIVE Gcd(_, _)
Gcd(a, b) == IF b = 0 THEN a ELSE Gcd(b, a % b)

\* a / b in floating point: the quotient, held in lowest terms; 0 / 0 is nan
\* (numpy warns and does not raise), held as 0 over 0.
TrueDiv(a, b) ==
    IF b = 0 THEN [num |-> 0, den |-> 0]
    ELSE [num |-> a \div Gcd(a, b), den |-> b \div Gcd(a, b)]

\* float >= float on quotients with positive denominators
FracGeq(p, q) == p.num * q.den >= q.num * p.den

FracLess(p, q) == p.num * q.den < q.num * p.den

\* ------------------------------------------------- tables and aggregation

\* A cell of a merged float column: a number, or NaN where the join found none.
Num(v) == [v |-> v]

NaN == [nan |-> TRUE]

\* cases (app.py:44-50): label -> (start_date, end_date)
cases ==
    [Case1 |-> << <<2025, 1, 29>>, <<2025, 2, 2>> >>,
     Case2 |-> << <<2025, 2, 13>>, <<2025, 2, 15>> >>,
     Case3 |-> << <<2025, 2, 18>>, <<2025, 2, 20>> >>,
     Case4 |-> << <<2025, 3, 13>>, <<2025, 3, 18>> >>,
     Case5 |-> << <<2025, 3, 25>>, <<2025, 3, 28>> >>]

\* list(cases.keys())[0], the dropdown's initial value
FirstCase == "Case1"

\* A row lists in "missing" the columns whose cell is empty in the CSV (read
\* as NaN) and in "text" those whose cell is not a number (read as a string);
\* a row without these fields has numbers everywhere.
IsMissing(r, column) == "missing" \in DOMAIN r /\ column \in r.missing

IsText(r, column) == "text" \in DOMAIN r /\ column \in r.text

\* the columns calc_freq is applied to (app.py:33-35)
FreqColumns == {"ObsGustSpd1h", "wt_operation", "arc_gust_pred"}

\* comparing a string cell with 25 raises TypeError
Raises(data) ==
    \E i \in DOMAIN data : \E column \in FreqColumns : IsText(data[i], column)

\* calc_freq counting the values above 25 only.
calc_freq_strict(group, column) ==
    TrueDiv(Cardinality({i \in DOMAIN group :
                            /\ ~IsMissing(group[i], column)
                            /\ group[i][column] > 25}),
            Len(group))

\* (group[column] >= 25).sum() / len(group): a NaN cell compares False and
\* its row is counted by len
calc_freq(group, column) ==
    TrueDiv(Cardinality({i \in DOMAIN group :
                            /\ ~IsMissing(group[i], column)
                            /\ group[i][column] >= 25}),
            Len(group))

RECURSIVE SortedKeys(_)
\* the group keys in ascending order (groupby sorts its keys)
SortedKeys(S) ==
    IF S = {} THEN <<>>
    ELSE LET m == CHOOSE x \in S : \A y \in S : x <= y
         IN  <<m>> \o SortedKeys(S \ {m})

\* data.groupby("ID"): the rows of one key, in table order
Group(data, id) ==
    LET IsId(r) == r.ID = id IN SelectSeq(data, IsId)

\* data_df.groupby("ID").apply(...).reset_index(): one row per id that has rows
freq_df(data) ==
    LET keys == SortedKeys({data[i].ID : i \in DOMAIN data})
    IN  [k \in 1..Len(keys) |->
            [ID       |-> keys[k],
             obs_freq |-> calc_freq(Group(data, keys[k]), "ObsGustSpd1h"),
             wt_freq  |-> calc_freq(Group(data, keys[k]), "wt_operation"),
             arc_freq |-> calc_freq(Group(data, keys[k]), "arc_gust_pred")]]

\* One left row joined to the right table: a row per matching right row, in the
\* right table's order, or a single row with NaN coordinates when none matches.
JoinRow(l, right) ==
    LET IsId(r) == r.ID = l.ID
        hits == SelectSeq(right, IsId)
    IN  IF hits = <<>>
        THEN << [ID |-> l.ID, obs_freq |-> l.obs_freq, wt_freq |-> l.wt_freq,
                 arc_freq |-> l.arc_freq, LATD |-> NaN, LOND |-> NaN] >>
        ELSE [h \in 1..Len(hits) |->
                [ID |-> l.ID, obs_freq |-> l.obs_freq, wt_freq |-> l.wt_freq,
                 arc_freq |-> l.arc_freq,
                 LATD |-> Num(hits[h].LATD), LOND |-> Num(hits[h].LOND)]]

RECURSIVE merge(_, _)
\* left.merge(right, on="ID", how="left"): the left table's order is kept
merge(left, right) ==
    IF left = <<>> THEN <<>>
    ELSE JoinRow(Head(left), right) \o merge(Tail(left), right)

\* the bucket threshold 0.004 (app.py:40-41)
BucketThreshold == TrueDiv(4, 1000)

\* high_freq_df taking the frequencies above 0.004 only.
high_freq_df_strict ==
    LET IsHigh(r) == FracLess(BucketThreshold, r.obs_freq)
    IN  SelectSeq(plot_df, IsHigh)

high_freq_df ==
    LET IsHigh(r) == FracGeq(r.obs_freq, BucketThreshold)
    IN  SelectSeq(plot_df, IsHigh)

low_freq_df ==
    LET IsLow(r) == FracLess(r.obs_freq, BucketThreshold)
    IN  SelectSeq(plot_df, IsLow)

RECURSIVE SumCol(_, _)
SumCol(df, column) ==
    IF df = <<>> THEN 0 ELSE Head(df)[column] + SumCol(Tail(df), column)

\* loc_df[column].mean()
Mean(df, column) == TrueDiv(SumCol(df, column), Len(df))

DefaultZoom == 7

DefaultCenter == [lat |-> Mean(loc_df, "LATD"), lon |-> Mean(loc_df, "LOND")]

\* ------------------------------------------------------------ the map

\* Trace with the two opacities exchanged.
Trace_dimmed_selected(df, color, name, ids) ==
    [name    |-> name,
     color   |-> color,
     lat     |-> [i \in 1..Len(df) |-> df[i].LATD],
     lon     |-> [i \in 1..Len(df) |-> df[i].LOND],
     text    |-> [i \in 1..Len(df) |-> df[i].ID],
     opacity |-> [i \in 1..Len(df) |->
                    IF df[i].ID \in Range(ids) THEN 4 ELSE 10]]

\* one go.Scattermapbox trace of create_map's loop
Trace(df, color, name, ids) ==
    [name    |-> name,
     color   |-> color,
     lat     |-> [i \in 1..Len(df) |-> df[i].LATD],
     lon     |-> [i \in 1..Len(df) |-> df[i].LOND],
     text    |-> [i \in 1..Len(df) |-> df[i].ID],
     opacity |-> [i \in 1..Len(df) |->
                    IF df[i].ID \in Range(ids) THEN 10 ELSE 4]]

\* create_map(selected_ids); opacities are in tenths (10 is 1.0, 4 is 0.4)
create_map(ids) ==
    [data          |-> << Trace(low_freq_df, "blue", "Low Frequency", ids),
                          Trace(high_freq_df, "red", "High Frequency", ids) >>,
     mapbox_zoom   |-> DefaultZoom,
     mapbox_center |-> DefaultCenter]

\* update_map_figure without the branch that applies the stored viewport.
update_map_figure_default_view(ids, state) == create_map(ids)

\* update_map_figure(selected_ids, map_state)
update_map_figure(ids, state) ==
    IF Truthy(state) /\ "center" \in DOMAIN state /\ "zoom" \in DOMAIN state
    THEN [create_map(ids) EXCEPT !.mapbox_center = state.center,
                                 !.mapbox_zoom = state.zoom]
    ELSE create_map(ids)

\* save_map_state falling back to the defaults, not to the stored state.
save_map_state_defaults_only(relayout_data, current_state) ==
    IF ~Truthy(relayout_data) THEN current_state
    ELSE [zoom   |-> Get(relayout_data, "mapbox.zoom", DefaultZoom),
          center |-> Get(relayout_data, "mapbox.center", DefaultCenter)]

\* save_map_state storing only the fields the relayout event carries.
save_map_state_partial(relayout_data, current_state) ==
    IF ~Truthy(relayout_data) THEN current_state
    ELSE LET current == IF current_state = None THEN EmptyDict
                        ELSE current_state
             keys == {f \in {"zoom", "center"} :
                         \/ f \in DOMAIN current
                         \/ (f = "zoom" /\ "mapbox.zoom" \in DOMAIN relayout_data)
                         \/ (f = "center"
                               /\ "mapbox.center" \in DOMAIN relayout_data)}
         IN  [f \in keys |->
                IF f = "zoom"
                THEN Get(relayout_data, "mapbox.zoom", Get(current, "zoom", None))
                ELSE Get(relayout_data, "mapbox.center",
                         Get(current, "center", None))]

\* save_map_state(relayout_data, current_state)
save_map_state(relayout_data, current_state) ==
    IF ~Truthy(relayout_data) THEN current_state
    ELSE LET current == IF current_state = None THEN EmptyDict
                        ELSE current_state
             zoom   == Get(relayout_data, "mapbox.zoom",
                           Get(current, "zoom", DefaultZoom))
             center == Get(relayout_data, "mapbox.center",
                           Get(current, "center", DefaultCenter))
         IN  [zoom |-> zoom, center |-> center]

\* ------------------------------------------------------------ the selection

\* update_station_list without the membership test: every click appends.
update_station_list_always_append(click, reset_clicks, ids, ctx_triggered_id) ==
    IF ctx_triggered_id = "reset-button" THEN <<>>
    ELSE IF ~Truthy(click) \/ "points" \notin DOMAIN click THEN ids
    ELSE Append(ids, click.points[1].text)

\* update_station_list with the click handled before the reset test.
update_station_list_click_first(click, reset_clicks, ids, ctx_triggered_id) ==
    IF Truthy(click) /\ "points" \in DOMAIN click
    THEN IF click.points[1].text \notin Range(ids)
         THEN Append(ids, click.points[1].text) ELSE ids
    ELSE IF ctx_triggered_id = "reset-button" THEN <<>>
    ELSE ids

\* update_station_list inserting the clicked id at the front.
update_station_list_prepend(click, reset_clicks, ids, ctx_triggered_id) ==
    IF ctx_triggered_id = "reset-button" THEN <<>>
    ELSE IF ~Truthy(click) \/ "points" \notin DOMAIN click THEN ids
    ELSE IF click.points[1].text \notin Range(ids)
         THEN <<click.points[1].text>> \o ids ELSE ids

\* update_station_list(clickData, reset_clicks, selected_ids), with
\* ctx.triggered_id as its fourth argument
update_station_list(click, reset_clicks, ids, ctx_triggered_id) ==
    IF ctx_triggered_id = "reset-button" THEN <<>>
    ELSE IF ~Truthy(click) \/ "points" \notin DOMAIN click THEN ids
    ELSE LET clicked_id == click.points[1].text
         IN  IF clicked_id \notin Range(ids) THEN Append(ids, clicked_id)
             ELSE ids

\* ------------------------------------------------------------ the charts

\* html.Div("地点を選んでください")
Prompt == [kind |-> "Div", text |-> "select a station"]

\* site_filter with the end of the window excluded.
site_filter_exclusive_end(data, point_id, start_date, end_date) ==
    LET IsId(r)     == r.ID = point_id
        InWindow(r) == LexLeq(start_date, r.VALIDTIME)
                       /\ LexLess(r.VALIDTIME, end_date)
        InHours(r)  == 0 <= r.ft /\ r.ft <= 23
    IN  SelectSeq(SelectSeq(SelectSeq(data, IsId), InWindow), InHours)

\* the three filters of update_timeseries, in the code's order
site_filter(data, point_id, start_date, end_date) ==
    LET IsId(r)     == r.ID = point_id
        InWindow(r) == LexLeq(start_date, r.VALIDTIME)
                       /\ LexLeq(r.VALIDTIME, end_date)
        InHours(r)  == 0 <= r.ft /\ r.ft <= 23
    IN  SelectSeq(SelectSeq(SelectSeq(data, IsId), InWindow), InHours)

\* site_df.sort_values("VALIDTIME"): pandas' default sort is not stable, so
\* every ascending arrangement of the rows is a possible result.
sort_values(df) ==
    LET n     == Len(df)
        perms == {p \in [1..n -> 1..n] :
                     /\ \A i, j \in 1..n : i # j => p[i] # p[j]
                     /\ \A i, j \in 1..n :
                           i < j => LexLeq(df[p[i]].VALIDTIME,
                                           df[p[j]].VALIDTIME)}
    IN  {[i \in 1..n |-> df[p[i]]] : p \in perms}

Column(df, column) == [i \in 1..Len(df) |-> df[i][column]]

\* one go.Scatter trace
Scatter(df, column, name) ==
    [name |-> name, x |-> Column(df, "VALIDTIME"), y |-> Column(df, column)]

\* one reference line: sorted rows, so min and max are the ends
Shape(df, threshold) ==
    [x0 |-> df[1].VALIDTIME, x1 |-> df[Len(df)].VALIDTIME,
     y0 |-> threshold, y1 |-> threshold]

\* site_fig without the empty branch's bare figure: the placeholder
\* carries the three series, empty.
site_fig_empty_series(site_df, point_id, selected_case) ==
    IF site_df = <<>>
    THEN [title  |-> [text |-> "No data for", point_id |-> point_id,
                      selected_case |-> selected_case],
          traces |-> << Scatter(site_df, "ObsGustSpd1h", "Obs"),
                        Scatter(site_df, "wt_operation", "WT"),
                        Scatter(site_df, "arc_gust_pred", "ARC") >>,
          shapes |-> <<>>]
    ELSE [title  |-> [point_id |-> point_id],
          traces |-> << Scatter(site_df, "ObsGustSpd1h", "Obs"),
                        Scatter(site_df, "wt_operation", "WT"),
                        Scatter(site_df, "arc_gust_pred", "ARC") >>,
          shapes |-> << Shape(site_df, 20), Shape(site_df, 25) >>]

\* the figure built for one station from its filtered and sorted rows
site_fig(site_df, point_id, selected_case) ==
    IF site_df = <<>>
    THEN [title  |-> [text |-> "No data for", point_id |-> point_id,
                      selected_case |-> selected_case],
          traces |-> <<>>,
          shapes |-> <<>>]
    ELSE [title  |-> [point_id |-> point_id],
          traces |-> << Scatter(site_df, "ObsGustSpd1h", "Obs"),
                        Scatter(site_df, "wt_operation", "WT"),
                        Scatter(site_df, "arc_gust_pred", "ARC") >>,
          shapes |-> << Shape(site_df, 20), Shape(site_df, 25) >>]

RECURSIVE graph_lists_front(_, _, _)
\* the loop inserting each figure at the front of children.
graph_lists_front(data, station_ids, selected_case) ==
    IF station_ids = <<>> THEN {<<>>}
    ELSE LET point_id == Head(station_ids)
             rows == site_filter(data, point_id, cases[selected_case][1],
                                 cases[selected_case][2])
         IN  {rest \o <<site_fig(site_df, point_id, selected_case)>> :
                 site_df \in sort_values(rows),
                 rest \in graph_lists_front(data, Tail(station_ids),
                                            selected_case)}

RECURSIVE graph_lists(_, _, _)
\* the loop over station_ids: the possible lists of figures, in list order
graph_lists(data, station_ids, selected_case) ==
    IF station_ids = <<>> THEN {<<>>}
    ELSE LET point_id == Head(station_ids)
             rows == site_filter(data, point_id, cases[selected_case][1],
                                 cases[selected_case][2])
         IN  {<<site_fig(site_df, point_id, selected_case)>> \o rest :
                 site_df \in sort_values(rows),
                 rest \in graph_lists(data, Tail(station_ids), selected_case)}

\* update_timeseries without the empty-selection return.
update_timeseries_no_prompt(station_ids, selected_case) ==
    {[kind |-> "graphs", graphs |-> g] :
        g \in graph_lists(data_df, station_ids, selected_case)}

\* update_timeseries(station_ids, selected_case): the possible return values
update_timeseries(station_ids, selected_case) ==
    IF station_ids = <<>> THEN {Prompt}
    ELSE {[kind |-> "graphs", graphs |-> g] :
             g \in graph_lists(data_df, station_ids, selected_case)}

\* ------------------------------------------------------------ the wiring

\* update_map_figure declared with the viewport store as its Output.
Output_update_map_figure_map_state == "map_state"

\* The component property each callback writes (its Output).
Output_update_map_figure == "figure"

Output_save_map_state == "map_state"

Output_update_station_list == "selected_ids"

Output_update_timeseries == "children"

\* ctx.triggered_id: the component of the property that started the chain
TriggeredId(prop) ==
    CASE prop = "station-map.clickData"    -> "station-map"
      [] prop = "station-map.relayoutData" -> "station-map"
      [] prop = "reset-button.n_clicks"    -> "reset-button"
      [] prop = "case-selector.value"      -> "case-selector"
      [] OTHER                             -> ""

\* the component properties, as one record
Props ==
    [clickData |-> clickData, relayoutData |-> relayoutData,
     n_clicks |-> n_clicks, case_selector |-> case_selector,
     selected_ids |-> selected_ids, map_state |-> map_state,
     figure |-> figure, children |-> children]

Put(s, prop, value) == [s EXCEPT ![prop] = value]

\* One run of each callback on the properties s: Inputs and States are read
\* from s, the return value is written to the callback's Output.
Run_update_station_list(s, prop) ==
    Put(s, Output_update_station_list,
        update_station_list(s.clickData, s.n_clicks, s.selected_ids,
                            TriggeredId(prop)))

Run_save_map_state(s) ==
    Put(s, Output_save_map_state, save_map_state(s.relayoutData, s.map_state))

Run_update_map_figure(s) ==
    Put(s, Output_update_map_figure,
        update_map_figure(s.selected_ids, s.map_state))

Run_update_timeseries(s) ==
    {Put(s, Output_update_timeseries, c) :
        c \in update_timeseries(s.selected_ids, s.case_selector)}

\* update_timeseries without selected-station-ids.data among its Inputs: only
\* update_map_figure runs after the selection is written.
AfterSelection_map_only(s) == {Run_update_map_figure(s)}

\* The callbacks that have selected-station-ids.data as an Input run after it
\* is written: update_map_figure and update_timeseries.
AfterSelection(s) == Run_update_timeseries(Run_update_map_figure(s))

\* the properties after a chain, written back
Commit(s, prop) ==
    /\ clickData' = s.clickData
    /\ relayoutData' = s.relayoutData
    /\ n_clicks' = s.n_clicks
    /\ case_selector' = s.case_selector
    /\ selected_ids' = s.selected_ids
    /\ map_state' = s.map_state
    /\ figure' = s.figure
    /\ children' = s.children
    /\ triggered' = prop

\* ------------------------------------------------------------ bounds, inputs

\* reset presses in one session
MaxClicks == 1

Row(id, t, ft, obs, wt, arc) ==
    [ID |-> id, VALIDTIME |-> t, ft |-> ft, ObsGustSpd1h |-> obs,
     wt_operation |-> wt, arc_gust_pred |-> arc]

Loc(id, lat, lon) == [ID |-> id, LATD |-> lat, LOND |-> lon]

\* The observation table of the interactive sessions.  Station 1 has rows in
\* Case1 and one in Case2, station 2 has two rows with one timestamp in Case2,
\* station 3 has rows in no case window.
UiTables ==
    { << Row(1, <<2025, 1, 29, 0>>, 0, 26, 20, 25),
         Row(2, <<2025, 2, 14, 0>>, 0, 12, 13, 14),
         Row(1, <<2025, 1, 30, 0>>, 24, 10, 11, 12),
         Row(2, <<2025, 2, 14, 0>>, 12, 30, 31, 32),
         Row(3, <<2025, 4, 1, 0>>, 0, 10, 10, 10),
         Row(1, <<2025, 2, 13>>, 23, 10, 26, 12),
         Row(1, <<2025, 1, 29, 12>>, 12, 10, 26, 12) >> }

\* the cases the user switches between in the explored sessions
DropdownChoices == {"Case1", "Case2", "Case3"}

UiLocs ==
    { << Loc(1, 34, 135), Loc(2, 36, 139), Loc(3, 35, 137) >> }

\* a pan or zoom target
EventZooms == {5}

EventCenters == {[lat |-> TrueDiv(34, 1), lon |-> TrueDiv(135, 1)]}

\* relayoutData payloads: any subset of the keys, {} included
RelayoutPayloads ==
    {[k \in K |-> CASE k = "mapbox.zoom"   -> z
                    [] k = "mapbox.center" -> c
                    [] OTHER               -> TRUE] :
        K \in SUBSET {"mapbox.zoom", "mapbox.center", "autosize"},
        z \in EventZooms, c \in EventCenters}

\* the click payload of the marker whose text is id
ClickPayload(id) == [points |-> << [text |-> id] >>]

\* the markers a user can click: those drawn, that is with coordinates
MarkerIds ==
    {plot_df[i].ID : i \in {j \in DOMAIN plot_df : plot_df[j].LATD # NaN}}

\* ------------------------------------------------------------ the session

\* the layout as declared (app.py:82-105), before the module-level aggregation
Layout ==
    /\ plot_df = <<>>
    /\ clickData = None
    /\ relayoutData = None
    /\ n_clicks = 0
    /\ case_selector = FirstCase
    /\ selected_ids = <<>>
    /\ map_state = None
    /\ figure = None
    /\ children = None
    /\ triggered = ""
    /\ pc = "import"

Init ==
    /\ data_df \in UiTables
    /\ loc_df \in UiLocs
    /\ Layout

\* the module-level aggregation (app.py:31-41); an exception in it ends the
\* program before the layout exists
Import ==
    /\ pc = "import"
    /\ IF Raises(data_df)
       THEN plot_df' = plot_df /\ pc' = "failed"
       ELSE plot_df' = merge(freq_df(data_df), loc_df) /\ pc' = "layout"
    /\ UNCHANGED <<data_df, loc_df, clickData, relayoutData, n_clicks,
                   case_selector, selected_ids, map_state, figure, children,
                   triggered>>

\* The page loads: every callback runs once with no trigger, those that read
\* another callback's Output after it.
PageLoad ==
    /\ pc = "layout"
    /\ \E s \in AfterSelection(
                   Run_save_map_state(Run_update_station_list(Props, ""))) :
          Commit(s, "")
    /\ pc' = "ready"
    /\ UNCHANGED <<data_df, loc_df, plot_df>>

\* the user clicks the marker of station id
MarkerClicked(id) ==
    /\ pc = "ready"
    /\ LET prop == "station-map.clickData"
           s0   == Put(Props, "clickData", ClickPayload(id))
       IN  \E s \in AfterSelection(Run_update_station_list(s0, prop)) :
              Commit(s, prop)
    /\ UNCHANGED <<data_df, loc_df, plot_df, pc>>

\* the user presses Reset
ResetPressed ==
    /\ pc = "ready"
    /\ n_clicks < MaxClicks
    /\ LET prop == "reset-button.n_clicks"
           s0   == Put(Props, "n_clicks", n_clicks + 1)
       IN  \E s \in AfterSelection(Run_update_station_list(s0, prop)) :
              Commit(s, prop)
    /\ UNCHANGED <<data_df, loc_df, plot_df, pc>>

\* the user picks another case in the dropdown
CaseChanged(label) ==
    /\ pc = "ready"
    /\ label # case_selector
    /\ LET prop == "case-selector.value"
           s0   == Put(Props, "case_selector", label)
       IN  \E s \in Run_update_timeseries(s0) : Commit(s, prop)
    /\ UNCHANGED <<data_df, loc_df, plot_df, pc>>

\* the user pans or zooms the map, or the map reports another relayout
ViewportChanged(payload) ==
    /\ pc = "ready"
    /\ LET prop == "station-map.relayoutData"
           s0   == Put(Props, "relayoutData", payload)
       IN  Commit(Run_save_map_state(s0), prop)
    /\ UNCHANGED <<data_df, loc_df, plot_df, pc>>

Next ==
    \/ Import
    \/ PageLoad
    \/ \E id \in MarkerIds : MarkerClicked(id)
    \/ ResetPressed
    \/ \E label \in DropdownChoices : CaseChanged(label)
    \/ \E payload \in RelayoutPayloads : ViewportChanged(payload)

Spec == Init /\ [][Next]_vars

\* ------------------------------------------------------------ the selection's claims

NoDuplicates(ids) == \A i, j \in DOMAIN ids : i # j => ids[i] # ids[j]

\* the id of the click payload the map holds
ClickedId == clickData.points[1].text

\* C1: the selection never holds a station id twice, and no step other than a
\* reset (so no marker click, however many follow one another) makes it shorter.
C1_SelectionMonotone ==
    /\ [](NoDuplicates(selected_ids))
    /\ [][triggered' # "reset-button.n_clicks"
             => Len(selected_ids') >= Len(selected_ids)]_vars

\* Three different markers were clicked and the last one clicked again.
C1_Witness ==
    /\ triggered = "station-map.clickData"
    /\ Len(selected_ids) = 3
    /\ ClickedId = selected_ids[2]

\* C2: after a reset press the selection is empty, whatever it was and
\* whatever click payload the map still holds.
C2_ResetTotal ==
    triggered = "reset-button.n_clicks" => selected_ids = <<>>

\* Reset was pressed while the map still held a click.
C2_Witness ==
    /\ triggered = "reset-button.n_clicks"
    /\ clickData # None
    /\ selected_ids = <<>>
    /\ case_selector = FirstCase

\* C3: a marker click on an id already selected leaves the selection as it is;
\* on a new id the result is the old selection with the id as its last element.
C3_AppendIfAbsent ==
    [][triggered' = "station-map.clickData" =>
          LET x == clickData'.points[1].text
              n == Len(selected_ids)
          IN  IF \E i \in 1..n : selected_ids[i] = x
              THEN selected_ids' = selected_ids
              ELSE /\ Len(selected_ids') = n + 1
                   /\ selected_ids'[n + 1] = x
                   /\ \A i \in 1..n : selected_ids'[i] = selected_ids[i]]_vars

\* Two markers were clicked, then the first one again: the order is kept.
C3_Witness ==
    /\ triggered = "station-map.clickData"
    /\ Len(selected_ids) = 2
    /\ ClickedId = selected_ids[1]
    /\ n_clicks = 0

\* ------------------------------------------------------------ the viewport's claims

SelectionOrCaseTrigger ==
    {"station-map.clickData", "reset-button.n_clicks", "case-selector.value"}

\* C4: a chain started by a marker click, a reset or a case change, re-render
\* included, leaves map-state as it was.
C4_ViewportKept ==
    [][triggered' \in SelectionOrCaseTrigger => map_state' = map_state]_vars

\* A click re-rendered the map with a stored viewport that is not the default.
C4_Witness ==
    /\ triggered = "station-map.clickData"
    /\ map_state # None
    /\ map_state.zoom # DefaultZoom
    /\ figure.mapbox_zoom = map_state.zoom
    /\ figure.mapbox_center = map_state.center

\* The value the claim gives a field: the event's, else the previous state's,
\* else the default.
Carried(event, previous, key, field, default) ==
    IF event # None /\ key \in DOMAIN event THEN event[key]
    ELSE IF previous # None THEN previous[field]
    ELSE default

ExpectedViewport(event, previous) ==
    [zoom   |-> Carried(event, previous, "mapbox.zoom", "zoom", DefaultZoom),
     center |-> Carried(event, previous, "mapbox.center", "center",
                        DefaultCenter)]

\* a step in which save_map_state ran: the page load or a relayout
SaveMapStateRan == pc = "layout" \/ triggered' = "station-map.relayoutData"

\* C5 as stated: whenever save_map_state runs, the state it returns has each
\* field from the event, else from the previous state, else the default, also
\* when the event carries neither field and there is no previous state.
C5_AsStated ==
    [][SaveMapStateRan
          => map_state' = ExpectedViewport(relayoutData', map_state)]_vars

\* C5 amended: for a non-empty relayout payload the returned state has each
\* field from the payload, else from the previous state, else the default;
\* for a missing or empty payload the previous state is returned as it is,
\* absent when it was absent.
C5_Amended ==
    [][SaveMapStateRan =>
          IF relayoutData' # None /\ DOMAIN relayoutData' # {}
          THEN map_state' = ExpectedViewport(relayoutData', map_state)
          ELSE map_state' = map_state]_vars

\* A zoom-only event kept the center an earlier event had stored.
C5_Witness ==
    /\ triggered = "station-map.relayoutData"
    /\ DOMAIN relayoutData = {"mapbox.zoom"}
    /\ map_state # None
    /\ map_state.zoom = relayoutData["mapbox.zoom"]
    /\ map_state.center \in EventCenters
    /\ map_state.center # DefaultCenter

\* ------------------------------------------------------------ the charts' claims

\* C9: once the page has loaded, an empty selection shows the prompt alone,
\* under every case.
C9_EmptySelectionPrompt ==
    (pc = "ready" /\ selected_ids = <<>>) => children = Prompt

\* After a reset under another case than the first, the panel is the prompt.
C9_Witness ==
    /\ triggered = "reset-button.n_clicks"
    /\ case_selector # FirstCase
    /\ selected_ids = <<>>
    /\ children = Prompt

\* ------------------------------------------------------------ update_timeseries alone

\* rows of an observation table given to update_timeseries
MaxSeriesRows == 2

\* Timestamps around Case2: before its start, its start, its end, and an hour
\* of its last day, which as a string is greater than the end date.
SeriesTimes ==
    {<<2025, 2, 12, 23>>, <<2025, 2, 13>>, <<2025, 2, 15>>, <<2025, 2, 15, 0>>}

SeriesHours == {-1, 0, 23, 24}

SeriesRows ==
    {Row(id, t, ft, 20 + ft, 20, 25) :
        id \in {1, 2}, t \in SeriesTimes, ft \in SeriesHours}

\* The window example: rows of one station before, in and after Case2, out of
\* timestamp order, one of them with a forecast hour out of range.
WindowExample ==
    << Row(1, <<2025, 2, 15>>, 23, 30, 31, 32),
       Row(1, <<2025, 2, 16, 0>>, 0, 10, 11, 12),
       Row(2, <<2025, 2, 12, 23>>, 0, 10, 11, 12),
       Row(1, <<2025, 2, 14, 6>>, 24, 26, 27, 28),
       Row(1, <<2025, 2, 13, 0>>, 0, 20, 21, 22),
       Row(1, <<2025, 2, 12, 23>>, 23, 10, 11, 12) >>

SeriesTables ==
    UNION {[1..n -> SeriesRows] : n \in 1..MaxSeriesRows} \cup {WindowExample}

SeriesSelections == {<<1>>, <<2>>, <<1, 2>>, <<2, 1>>}

SeriesCases == {"Case1", "Case2"}

\* A selection and a case are in the stores and update_timeseries is called.
InitSeries ==
    /\ data_df \in SeriesTables
    /\ loc_df \in UiLocs
    /\ plot_df = merge(freq_df(data_df), loc_df)
    /\ clickData = None
    /\ relayoutData = None
    /\ n_clicks = 0
    /\ case_selector \in SeriesCases
    /\ selected_ids \in SeriesSelections
    /\ map_state = None
    /\ figure = None
    /\ children = None
    /\ triggered = ""
    /\ pc = "call"

\* update_timeseries returns
ReturnSeries ==
    /\ pc = "call"
    /\ \E s \in Run_update_timeseries(Props) : children' = s.children
    /\ pc' = "returned"
    /\ UNCHANGED <<data_df, loc_df, plot_df, clickData, relayoutData, n_clicks,
                   case_selector, selected_ids, map_state, figure, triggered>>

SpecSeries == InitSeries /\ [][ReturnSeries]_vars

\* the rows of the table the claims ask for: station, window, forecast hour
Qualifying(id) ==
    {k \in DOMAIN data_df :
        /\ data_df[k].ID = id
        /\ LexLeq(cases[case_selector][1], data_df[k].VALIDTIME)
        /\ LexLeq(data_df[k].VALIDTIME, cases[case_selector][2])
        /\ data_df[k].ft \in 0..23}

\* what a chart shows of a row
Point(r) == <<r.VALIDTIME, r.ObsGustSpd1h, r.wt_operation, r.arc_gust_pred>>

\* the points of a chart, in plotted order
Plotted(fig) ==
    IF fig.traces = <<>> THEN <<>>
    ELSE [j \in DOMAIN fig.traces[1].x |->
            <<fig.traces[1].x[j], fig.traces[1].y[j], fig.traces[2].y[j],
              fig.traces[3].y[j]>>]

\* C6: for a non-empty selection update_timeseries returns one chart per
\* selected id, the i-th chart titled with the i-th id.
C6_OneChartPerStation ==
    (pc = "returned" /\ selected_ids # <<>>) =>
        /\ children.kind = "graphs"
        /\ Len(children.graphs) = Len(selected_ids)
        /\ \A i \in DOMAIN selected_ids :
              children.graphs[i].title.point_id = selected_ids[i]

\* Station 2 was selected before station 1; the first chart has data, the
\* second is a placeholder.
C6_Witness ==
    /\ pc = "returned"
    /\ selected_ids = <<2, 1>>
    /\ children.graphs[1].traces # <<>>
    /\ children.graphs[2].traces = <<>>

\* C7: the points of each station's chart are exactly the station's rows in
\* the window with a forecast hour in 0..23, each as often as the table has
\* it, in ascending timestamp order, the three series on one time axis.
C7_WindowFilter ==
    pc = "returned" =>
        \A i \in DOMAIN selected_ids :
            LET P == Plotted(children.graphs[i])
                Q == Qualifying(selected_ids[i])
                T == Range(P) \cup {Point(data_df[k]) : k \in Q}
            IN  /\ Len(P) = Cardinality(Q)
                /\ \A t \in T :
                      Cardinality({j \in DOMAIN P : P[j] = t})
                        = Cardinality({k \in Q : Point(data_df[k]) = t})
                /\ \A j1, j2 \in DOMAIN P :
                      j1 < j2 => LexLeq(P[j1][1], P[j2][1])
                /\ \A tr \in Range(children.graphs[i].traces) :
                      tr.x = children.graphs[i].traces[1].x

\* The window example under Case2: of station 1's five rows the chart shows
\* the two in range, the later row of the table first.
C7_Witness ==
    /\ pc = "returned"
    /\ data_df = WindowExample
    /\ case_selector = "Case2"
    /\ selected_ids = <<1>>
    /\ children.graphs[1].traces[1].x = << <<2025, 2, 13, 0>>, <<2025, 2, 15>> >>
    /\ children.graphs[1].traces[1].y = <<20, 30>>

\* the chart list update_timeseries can return for the one station id
AloneCharts(id) ==
    {c.graphs[1] : c \in update_timeseries(<<id>>, case_selector)}

\* C8: a selected station with no row left by the filter gets a figure with a
\* "No data" title and neither series nor reference lines; every chart of the
\* list is one the station would get when selected alone.
C8_Placeholder ==
    pc = "returned" =>
        \A i \in DOMAIN selected_ids :
            LET fig == children.graphs[i]
            IN  /\ Qualifying(selected_ids[i]) = {} =>
                      /\ fig.title.text = "No data for"
                      /\ fig.title.selected_case = case_selector
                      /\ fig.traces = <<>>
                      /\ fig.shapes = <<>>
                /\ Qualifying(selected_ids[i]) # {} =>
                      /\ Len(fig.traces) = 3
                      /\ Len(fig.shapes) = 2
                /\ fig \in AloneCharts(selected_ids[i])

\* Station 1 has rows but none in the window and is listed first; station 2's
\* chart after it has its data.
C8_Witness ==
    /\ pc = "returned"
    /\ selected_ids = <<1, 2>>
    /\ \E k \in DOMAIN data_df : data_df[k].ID = 1
    /\ Qualifying(1) = {}
    /\ children.graphs[1].traces = <<>>
    /\ Len(children.graphs[2].traces) = 3
    /\ Len(children.graphs[2].traces[1].x) = Cardinality(Qualifying(2))

\* ------------------------------------------------------------ the aggregation alone

\* rows of an observation table given to the aggregation
MaxAggRows == 3

AggRows ==
    {Row(id, <<2025, 1, 29, 0>>, 0, obs, wt, arc) :
        id \in {1, 2}, obs \in {24, 25}, wt \in {24, 25}, arc \in {24, 25}}

\* Station 1 with ten rows, three of them with an observed gust of 25 or more.
TenRows ==
    [k \in 1..10 |->
        Row(1, <<2025, 1, 29, k>>, k,
            IF k \in {2, 5, 9} THEN 24 + k \div 2 ELSE 10 + k,
            IF k <= 5 THEN 25 ELSE 24,
            20)]

\* Station 1 with 250 rows and station 2 with 251, one observed gust of 25
\* each: obs_freq is 1/250 = 0.004 for station 1 and just below for station 2.
BoundaryRows ==
    [k \in 1..501 |->
        Row(IF k <= 250 THEN 1 ELSE 2, <<2025, 1, 29, 0>>, 0,
            IF k \in {7, 300} THEN 25 ELSE 10, 10, 10)]

AggTables ==
    UNION {[1..n -> AggRows] : n \in 1..MaxAggRows}
        \cup {TenRows, BoundaryRows}

\* location tables: all stations, and station 2 missing
AggLocs ==
    { << Loc(1, 34, 135), Loc(2, 36, 139), Loc(3, 35, 137) >>,
      << Loc(1, 34, 135), Loc(3, 35, 137) >> }

InitAgg ==
    /\ data_df \in AggTables
    /\ loc_df \in AggLocs
    /\ Layout

SpecAgg == InitAgg /\ [][Import]_vars

\* the rows of a station, and those at or above the threshold in a column
RowsOf(id) == {k \in DOMAIN data_df : data_df[k].ID = id}

Crossing(id, column) == {k \in RowsOf(id) : data_df[k][column] >= 25}

\* freq is count / rows, with rows > 0
IsRatio(freq, count, rows) ==
    /\ rows > 0
    /\ freq.den > 0
    /\ freq.num * rows = count * freq.den
    /\ 0 <= freq.num /\ freq.num <= freq.den

\* C10: after the aggregation every record's three frequencies are the share
\* of its station's rows at or above 25 in the column, a number in [0, 1];
\* every station with a row has a record and a station without rows has none.
C10_Frequency ==
    pc # "import" =>
        /\ \A i \in DOMAIN plot_df :
              LET rec == plot_df[i]
                  n   == Cardinality(RowsOf(rec.ID))
              IN  /\ IsRatio(rec.obs_freq,
                             Cardinality(Crossing(rec.ID, "ObsGustSpd1h")), n)
                  /\ IsRatio(rec.wt_freq,
                             Cardinality(Crossing(rec.ID, "wt_operation")), n)
                  /\ IsRatio(rec.arc_freq,
                             Cardinality(Crossing(rec.ID, "arc_gust_pred")), n)
        /\ {plot_df[i].ID : i \in DOMAIN plot_df}
             = {data_df[k].ID : k \in DOMAIN data_df}

\* Ten rows, three at or above 25: obs_freq is 3/10; station 3 has a location
\* and no rows, and no record.
C10_Witness ==
    /\ pc = "layout"
    /\ data_df = TenRows
    /\ Len(plot_df) = 1
    /\ plot_df[1].obs_freq = [num |-> 3, den |-> 10]
    /\ plot_df[1].wt_freq = [num |-> 1, den |-> 2]
    /\ plot_df[1].arc_freq = [num |-> 0, den |-> 1]
    /\ \E j \in DOMAIN loc_df : loc_df[j].ID = 3

\* ------------------------------------------------------------ the buckets

\* obs_freq >= 0.004 on the station's rows: 1000 * crossing >= 4 * rows
IsHighStation(id) ==
    1000 * Cardinality(Crossing(id, "ObsGustSpd1h"))
        >= 4 * Cardinality(RowsOf(id))

\* C11: after the aggregation every record is in exactly one bucket, HIGH
\* when its station's obs_freq is 0.004 or more, 0.004 itself included, and
\* LOW otherwise; the two buckets together are the whole result.
C11_Buckets ==
    pc # "import" =>
        /\ Len(high_freq_df) + Len(low_freq_df) = Len(plot_df)
        /\ \A i \in DOMAIN plot_df :
              /\ plot_df[i] \in Range(high_freq_df)
                    <=> IsHighStation(plot_df[i].ID)
              /\ plot_df[i] \in Range(low_freq_df)
                    <=> ~IsHighStation(plot_df[i].ID)

\* The boundary table: station 1 at exactly 0.004 is HIGH, station 2 at
\* 1/251 is LOW.
C11_Witness ==
    /\ pc = "layout"
    /\ data_df = BoundaryRows
    /\ Len(plot_df) >= 1
    /\ plot_df[1].obs_freq = [num |-> 1, den |-> 250]
    /\ plot_df[1] \in Range(high_freq_df)
    /\ \E i \in DOMAIN low_freq_df :
          low_freq_df[i].obs_freq = [num |-> 1, den |-> 251]

\* ------------------------------------------------------------ the map's sessions

\* rows of an observation table in the sessions that vary the tables
MaxMapRows == 2

MapRows ==
    {Row(id, <<2025, 1, 29, 0>>, 0, obs, 10, 10) :
        id \in {1, 2, 3}, obs \in {24, 25}}

MapTables == UNION {[1..n -> MapRows] : n \in 1..MaxMapRows}

\* location tables: every station once; station 2 missing; station 1 twice
MapLocs ==
    { << Loc(1, 34, 135), Loc(2, 36, 139), Loc(3, 35, 137) >>,
      << Loc(1, 34, 135), Loc(3, 35, 137) >>,
      << Loc(1, 34, 135), Loc(2, 36, 139), Loc(1, 40, 140) >> }

InitMap ==
    /\ data_df \in MapTables
    /\ loc_df \in MapLocs
    /\ Layout

NextMap ==
    \/ Import
    \/ PageLoad
    \/ \E id \in MarkerIds : MarkerClicked(id)
    \/ ResetPressed

SpecMap == InitMap /\ [][NextMap]_vars

\* the indices of the records of each bucket
HighIndices ==
    {i \in DOMAIN plot_df :
        1000 * plot_df[i].obs_freq.num >= 4 * plot_df[i].obs_freq.den}

LowIndices == DOMAIN plot_df \ HighIndices

\* the j-th smallest element of a set of indices
Nth(S, j) == CHOOSE i \in S : Cardinality({k \in S : k < i}) = j - 1

\* a trace holds one marker per record of S, in record order
TraceShows(trace, S, color) ==
    /\ trace.color = color
    /\ Len(trace.text) = Cardinality(S)
    /\ Len(trace.lat) = Cardinality(S)
    /\ Len(trace.lon) = Cardinality(S)
    /\ Len(trace.opacity) = Cardinality(S)
    /\ \A j \in 1..Cardinality(S) :
          LET rec == plot_df[Nth(S, j)]
          IN  /\ trace.text[j] = rec.ID
              /\ trace.lat[j] = rec.LATD
              /\ trace.lon[j] = rec.LOND
              /\ trace.opacity[j] = 10
                    <=> \E k \in DOMAIN selected_ids :
                           selected_ids[k] = rec.ID
              /\ trace.opacity[j] \in {4, 10}

\* C12: the figure holds one marker per record of plot_df, the LOW records in
\* the blue trace and the HIGH records in the red one, each trace in record
\* order, each marker with its record's id as text and opacity 1.0 when the id
\* is selected and 0.4 when it is not.
C12_Markers ==
    pc = "ready" =>
        /\ Len(figure.data) = 2
        /\ TraceShows(figure.data[1], LowIndices, "blue")
        /\ TraceShows(figure.data[2], HighIndices, "red")

\* A click lit a marker of the red trace while the blue trace has a dimmed one.
C12_Witness ==
    /\ pc = "ready"
    /\ triggered = "station-map.clickData"
    /\ \E j \in DOMAIN figure.data[2].text :
          /\ figure.data[2].opacity[j] = 10
          /\ figure.data[2].text[j] = ClickedId
    /\ \E j \in DOMAIN figure.data[1].text : figure.data[1].opacity[j] = 4

\* ------------------------------------------------------------ one invocation, two triggers

\* The two orders in which a request lists the changed properties when a
\* marker click and a reset press reach update_station_list in one invocation.
\* ctx.triggered_id is the component of the first one listed.
BothTriggeredOrders ==
    { << "station-map.clickData", "reset-button.n_clicks" >>,
      << "reset-button.n_clicks", "station-map.clickData" >> }

BothLabel(order) ==
    IF order[1] = "station-map.clickData" THEN "click+reset" ELSE "reset+click"

\* the user clicks the marker of station id and presses Reset, and the two
\* changes are sent as one invocation of update_station_list
BothTriggered(id, order) ==
    /\ pc = "ready"
    /\ n_clicks < MaxClicks
    /\ LET s0 == Put(Put(Props, "clickData", ClickPayload(id)),
                     "n_clicks", n_clicks + 1)
       IN  \E s \in AfterSelection(Run_update_station_list(s0, order[1])) :
              Commit(s, BothLabel(order))
    /\ UNCHANGED <<data_df, loc_df, plot_df, pc>>

NextCoalesce ==
    \/ Import
    \/ PageLoad
    \/ \E id \in MarkerIds : MarkerClicked(id)
    \/ ResetPressed
    \/ \E label \in DropdownChoices : CaseChanged(label)
    \/ \E id \in MarkerIds, order \in BothTriggeredOrders :
          BothTriggered(id, order)

SpecCoalesce == Init /\ [][NextCoalesce]_vars

\* C13: a tick in which a marker click and a reset press both triggered
\* update_station_list leaves the selection empty, whichever is listed first;
\* a click alone leaves its id selected and a reset alone leaves the
\* selection empty.
C13_ResetWins ==
    /\ triggered \in {"click+reset", "reset+click"} => selected_ids = <<>>
    /\ triggered = "station-map.clickData" =>
          \E k \in DOMAIN selected_ids : selected_ids[k] = ClickedId
    /\ triggered = "reset-button.n_clicks" => selected_ids = <<>>

\* ------------------------------------------------------------ re-renders and the stored viewport

SelectionTrigger == {"station-map.clickData", "reset-button.n_clicks"}

\* C14: the figure a selection change re-renders has the center and the zoom
\* of the viewport stored before the tick, which is the last one
\* save_map_state stored, whatever relayout events and clicks came before; it
\* has the default center and zoom only while no viewport was stored.
C14_ReRenderViewport ==
    [][triggered' \in SelectionTrigger =>
          /\ map_state # None =>
                /\ figure'.mapbox_center = map_state.center
                /\ figure'.mapbox_zoom = map_state.zoom
          /\ map_state = None =>
                /\ figure'.mapbox_center = DefaultCenter
                /\ figure'.mapbox_zoom = DefaultZoom]_vars

\* A reset re-rendered the map around a stored center that is not the default.
C14_Witness ==
    /\ triggered = "reset-button.n_clicks"
    /\ map_state # None
    /\ map_state.center # DefaultCenter
    /\ map_state.zoom # DefaultZoom
    /\ figure.mapbox_center = map_state.center
    /\ figure.mapbox_zoom = map_state.zoom

\* C20: the stored viewport is absent or holds both a center and a zoom, so
\* the test of update_map_figure for both fields passes for every stored
\* viewport.
C20_ViewportComplete ==
    map_state # None =>
        /\ DOMAIN map_state = {"zoom", "center"}
        /\ Truthy(map_state)
        /\ pc = "ready" =>
              update_map_figure(selected_ids, map_state).mapbox_zoom
                  = map_state.zoom

\* A relayout event with a center only stored a viewport with both fields.
C20_Witness ==
    /\ triggered = "station-map.relayoutData"
    /\ DOMAIN relayoutData = {"mapbox.center"}
    /\ map_state # None
    /\ DOMAIN map_state = {"zoom", "center"}
    /\ map_state.zoom = DefaultZoom

\* ------------------------------------------------------------ both views after a tick

\* the marker texts of the figure, and those drawn with opacity 1.0
MarkerTexts ==
    UNION {Range(figure.data[t].text) : t \in DOMAIN figure.data}

LitTexts ==
    UNION {{figure.data[t].text[j] :
               j \in {i \in DOMAIN figure.data[t].text :
                         figure.data[t].opacity[i] = 10}} :
           t \in DOMAIN figure.data}

\* C15: after every tick the markers with opacity 1.0 are exactly the selected
\* ids that have a marker, and the chart list is the one update_timeseries
\* gives for the current selection and the current case: the prompt for an
\* empty selection, else one chart per selected id, in order, showing the
\* station's rows of the current case window.
C15_ViewsFollowStores ==
    pc = "ready" =>
        /\ LitTexts = Range(selected_ids) \cap MarkerTexts
        /\ children \in update_timeseries(selected_ids, case_selector)
        /\ selected_ids = <<>> => children = Prompt
        /\ selected_ids # <<>> =>
              /\ children.kind = "graphs"
              /\ Len(children.graphs) = Len(selected_ids)
              /\ \A i \in DOMAIN selected_ids :
                    LET fig == children.graphs[i]
                    IN  /\ fig.title.point_id = selected_ids[i]
                        /\ Len(Plotted(fig))
                             = Cardinality(Qualifying(selected_ids[i]))
                        /\ fig.traces = <<>> =>
                              fig.title.selected_case = case_selector

\* The case was changed with two stations selected: the first chart is a
\* placeholder for the new case, the second has data, both markers are lit.
C15_Witness ==
    /\ pc = "ready"
    /\ triggered = "case-selector.value"
    /\ case_selector = "Case2"
    /\ Len(selected_ids) = 2
    /\ selected_ids[1] = 3
    /\ children.kind = "graphs"
    /\ children.graphs[1].traces = <<>>
    /\ children.graphs[2].traces # <<>>
    /\ Cardinality(LitTexts) = 2

\* ------------------------------------------------------------ ties in the sort

\* the place of row k among the station's qualifying rows when they are
\* ordered by timestamp and rows with one timestamp keep the table's order
StableRank(Q, k) ==
    1 + Cardinality({k2 \in Q :
            \/ LexLess(data_df[k2].VALIDTIME, data_df[k].VALIDTIME)
            \/ (data_df[k2].VALIDTIME = data_df[k].VALIDTIME /\ k2 < k)})

\* C16: in every station's chart the rows with equal timestamps are plotted in
\* the order they have in the observation table.
C16_StableSort ==
    pc = "returned" =>
        \A i \in DOMAIN selected_ids :
            LET P == Plotted(children.graphs[i])
                Q == Qualifying(selected_ids[i])
            IN  \A k \in Q :
                    /\ StableRank(Q, k) \in DOMAIN P
                    /\ P[StableRank(Q, k)] = Point(data_df[k])

\* ------------------------------------------------------------ stations and the location table

LocatedIds == {loc_df[l].ID : l \in DOMAIN loc_df}

\* the markers of the figure as <<text, lat, lon>>, both traces
Markers ==
    UNION {{<<figure.data[t].text[j], figure.data[t].lat[j],
              figure.data[t].lon[j]>> : j \in DOMAIN figure.data[t].text} :
           t \in DOMAIN figure.data}

\* the number of markers of the figure whose text is id
MarkerCount(id) ==
    Cardinality({<<t, j>> \in (DOMAIN figure.data) \X (DOMAIN plot_df) :
                    /\ j \in DOMAIN figure.data[t].text
                    /\ figure.data[t].text[j] = id})

\* C17: every record of the aggregation result, and every marker, belongs to
\* a station of the location table and has a latitude and a longitude; a
\* station with observation rows and no location row has no record and no
\* marker.
C17_OrphanDropped ==
    /\ pc # "import" =>
          \A i \in DOMAIN plot_df :
              /\ plot_df[i].ID \in LocatedIds
              /\ plot_df[i].LATD # NaN
              /\ plot_df[i].LOND # NaN
    /\ pc = "ready" =>
          \A m \in Markers :
              /\ m[1] \in LocatedIds
              /\ m[2] # NaN
              /\ m[3] # NaN

\* the last row of the location table for the station id
LastLoc(id) ==
    loc_df[CHOOSE l \in DOMAIN loc_df :
              /\ loc_df[l].ID = id
              /\ \A l2 \in DOMAIN loc_df : loc_df[l2].ID = id => l2 <= l]

\* C19: a station with rows and with one or more location rows has exactly
\* one record in the aggregation result and one marker, with the coordinates
\* of its last location row.
C19_LastWins ==
    /\ pc # "import" =>
          \A id \in LocatedIds \cap {data_df[k].ID : k \in DOMAIN data_df} :
              /\ Cardinality({i \in DOMAIN plot_df : plot_df[i].ID = id}) = 1
              /\ \A i \in DOMAIN plot_df :
                    plot_df[i].ID = id =>
                        /\ plot_df[i].LATD = Num(LastLoc(id).LATD)
                        /\ plot_df[i].LOND = Num(LastLoc(id).LOND)
    /\ pc = "ready" =>
          \A id \in LocatedIds \cap {data_df[k].ID : k \in DOMAIN data_df} :
              MarkerCount(id) = 1

\* ------------------------------------------------------------ malformed rows

\* rows of an observation table in the sessions with malformed rows
MaxMalformedRows == 2

\* a row whose observed gust is a number, an empty cell or a string
MalformedRow(id, obs, missing, text) ==
    [ID |-> id, VALIDTIME |-> <<2025, 1, 29, 0>>, ft |-> 0,
     ObsGustSpd1h |-> obs, wt_operation |-> 10, arc_gust_pred |-> 30,
     missing |-> missing, text |-> text]

MalformedRows ==
    {MalformedRow(id, obs, cell[1], cell[2]) :
        id \in {1, 2}, obs \in {24, 30},
        cell \in { <<{}, {}>>, <<{"ObsGustSpd1h"}, {}>>,
                   <<{}, {"ObsGustSpd1h"}>> }}

MalformedTables ==
    UNION {[1..n -> MalformedRows] : n \in 1..MaxMalformedRows}

InitMalformed ==
    /\ data_df \in MalformedTables
    /\ loc_df \in UiLocs
    /\ Layout

SpecMalformed == InitMalformed /\ [][Import]_vars

\* a row with a number in every column the aggregation reads
WellFormed(r) ==
    \A column \in FreqColumns : ~IsMissing(r, column) /\ ~IsText(r, column)

GoodRowsOf(id) == {k \in RowsOf(id) : WellFormed(data_df[k])}

GoodCrossing(id, column) ==
    {k \in GoodRowsOf(id) : data_df[k][column] >= 25}

\* C18: the aggregation completes whatever rows are malformed, and each
\* station's frequencies are taken over its well-formed rows only: a
\* malformed row is in neither the numerator nor the denominator.
C18_MalformedExcluded ==
    pc # "import" =>
        /\ pc # "failed"
        /\ \A i \in DOMAIN plot_df :
              LET id   == plot_df[i].ID
                  good == Cardinality(GoodRowsOf(id))
              IN  good > 0 =>
                    /\ plot_df[i].obs_freq.num * good
                         = Cardinality(GoodCrossing(id, "ObsGustSpd1h"))
                             * plot_df[i].obs_freq.den
                    /\ plot_df[i].wt_freq.num * good
                         = Cardinality(GoodCrossing(id, "wt_operation"))
                             * plot_df[i].wt_freq.den
                    /\ plot_df[i].arc_freq.num * good
                         = Cardinality(GoodCrossing(id, "arc_gust_pred"))
                             * plot_df[i].arc_freq.den
        /\ \A id \in {data_df[k].ID : k \in DOMAIN data_df} :
              GoodRowsOf(id) # {} => \E i \in DOMAIN plot_df : plot_df[i].ID = id

====
